---- MODULE Spec2Model ----
(***************************************************************************)
(* RedFS::FileSystem (src/src/FileSystem.cpp): the registry of storages.   *)
(* Static state, load / unload, get_storage, get_shared_storage and the    *)
(* helpers request_directory, migrate_directory and find_storage.          *)
(* Storage names are sequences of ASCII codes, so that the naming rule and *)
(* the case-insensitive comparison are computed character by character.    *)
(***************************************************************************)
EXTENDS Integers, Sequences, FiniteSets, TLC

VARIABLES
  logger,         \* FileSystem::logger / FileSystem::handle: "null" or "set"
  storages_path,  \* FileSystem::storages_path
  storages,       \* FileSystem::storages: key (name as given) -> handle id
  has_error,      \* FileSystem::has_error
  handles,        \* every FileSystemStorage object made so far (id = index)
  fs,             \* the part of the disk the registry touches
  last,           \* the last call: operation, argument, returned handle, log
  conflicted,     \* names (lower case) that took the conflict path this session
  crashed,        \* the process died in a call through the null logger
  calls           \* get_storage calls in progress on concurrent threads

vars == <<logger, storages_path, storages, has_error, handles, fs, last,
          conflicted, crashed, calls>>

----------------------------------------------------------------------------
(* Bounds of the exploration *)

MaxHandles == 2

----------------------------------------------------------------------------
(* Names *)

MinNameLen == 3

MaxNameLen == 24

SharedName == <<115, 104, 97, 114, 101, 100>>

LongName(n) == [i \in 1..n |-> 97]

\* "abc" "ABC", 24 letters | "ab" "a1b" "a[b", 25 letters | "shared" "ShArEd"
InputNames ==
  { <<97, 98, 99>>, <<65, 66, 67>>, LongName(MaxNameLen),
    <<97, 98>>, <<97, 49, 98>>, <<97, 91, 98>>, LongName(MaxNameLen + 1),
    SharedName, <<83, 104, 65, 114, 69, 100>> }

IsUpper(c) == c \in 65..90

IsLower(c) == c \in 97..122

\* the character class [A-Za-z]
IsLetter(c) == IsUpper(c) \/ IsLower(c)

\* the character class [A-z], which also holds [ \ ] ^ _ `
IsLetter_AtoZRange(c) == c \in 65..122

\* std::regex storage_name_rule("[A-Za-z]{3,24}") under regex_match: the
\* whole name is 3 to 24 characters of the class
storage_name_rule_WideClass(name) ==
  /\ Len(name) >= MinNameLen
  /\ Len(name) <= MaxNameLen
  /\ \A i \in 1..Len(name) : IsLetter_AtoZRange(name[i])

storage_name_rule(name) ==
  /\ Len(name) >= MinNameLen
  /\ Len(name) <= MaxNameLen
  /\ \A i \in 1..Len(name) : IsLetter(name[i])

ToLower(c) == IF IsUpper(c) THEN c + 32 ELSE c

LowerName(name) == [i \in 1..Len(name) |-> ToLower(name[i])]

\* Utils.h equals_insensitive: same length, same characters up to case
equals_insensitive(a, b) ==
  /\ Len(a) = Len(b)
  /\ \A i \in 1..Len(a) : ToLower(a[i]) = ToLower(b[i])

\* get_storage without the reserved-name check of line 72
IsReservedName_Never(name) == FALSE

\* get_storage line 72 written with ==, a case-sensitive comparison
IsReservedName_Exact(name) == name = SharedName

\* equals_insensitive(name, "shared") in get_storage
IsReservedName(name) == equals_insensitive(name, SharedName)

----------------------------------------------------------------------------
(* Handles *)

NoHandle == 0

\* Red::MakeHandle<FileSystemStorage>(name, path): a new active storage
NewStorage(name, path, by) ==
  [name |-> name, path |-> path, revoked |-> FALSE, by |-> by]

\* FileSystemStorage::revoke_permission
revoke_permission(hs, h) == [hs EXCEPT ![h].revoked = TRUE]

\* find_storage with storage.first == p_name, a case-sensitive comparison
find_storage_CaseSensitive(p_name) ==
  IF p_name \in DOMAIN storages THEN storages[p_name] ELSE NoHandle

\* find_storage: the handle of a key equal to p_name up to case, or null
find_storage(p_name) ==
  IF \E k \in DOMAIN storages : equals_insensitive(k, p_name)
    THEN storages[CHOOSE k \in DOMAIN storages : equals_insensitive(k, p_name)]
    ELSE NoHandle

----------------------------------------------------------------------------
(* Paths and the disk *)

RootBase == "r6/storages"

EmptyPath == [base |-> "", leaf |-> <<>>]

\* game_path / "r6" / "storages"
RootPath == [base |-> RootBase, leaf |-> <<>>]

\* storages_path / name
Join(p, name) == [p EXCEPT !.leaf = name]

FileNames == {"a.txt"}

NoFile == "none"

NoFiles == [f \in FileNames |-> NoFile]

\* what is at p: "absent", "dir" or "file"
KindAt(f, p) ==
  IF p.leaf = <<>> THEN f.root
  ELSE IF f.root = "dir" /\ p.leaf \in DOMAIN f.entries THEN f.entries[p.leaf]
  ELSE "absent"

\* std::filesystem::exists(p, error): any kind of file counts
fs_exists(f, p, io) ==
  [error |-> (io = "stat_error"),
   value |-> (io # "stat_error" /\ KindAt(f, p) # "absent")]

\* std::filesystem::create_directory(p, error): the parent must be a
\* directory; an existing directory gives false without an error
fs_create_directory(f, p, io) ==
  IF io = "create_error" THEN [error |-> TRUE, value |-> FALSE, fs |-> f]
  ELSE IF KindAt(f, p) = "dir" THEN [error |-> FALSE, value |-> FALSE, fs |-> f]
  ELSE IF KindAt(f, p) = "file" THEN [error |-> TRUE, value |-> FALSE, fs |-> f]
  ELSE IF p.leaf = <<>>
    THEN [error |-> FALSE, value |-> TRUE, fs |-> [f EXCEPT !.root = "dir"]]
  ELSE IF f.root = "dir"
    THEN [error |-> FALSE, value |-> TRUE,
          fs |-> [f EXCEPT !.entries = (p.leaf :> "dir") @@ f.entries]]
  ELSE [error |-> TRUE, value |-> FALSE, fs |-> f]

\* request_directory calling create_directory again when it has failed
request_directory_Retries(f, p_path, io) ==
  LET e == fs_exists(f, p_path, io)
      c == fs_create_directory(f, p_path, io)
      d == fs_create_directory(c.fs, p_path, io)
  IN  IF e.error THEN [ok |-> FALSE, fs |-> f, creates |-> 0]
      ELSE IF e.value THEN [ok |-> TRUE, fs |-> f, creates |-> 0]
      ELSE IF ~c.value \/ c.error
        THEN [ok |-> d.value /\ ~d.error, fs |-> d.fs, creates |-> 2]
      ELSE [ok |-> TRUE, fs |-> c.fs, creates |-> 1]

\* request_directory: true when the path exists or has been created;
\* `creates` counts the calls of create_directory
request_directory(f, p_path, io) ==
  LET e == fs_exists(f, p_path, io)
      c == fs_create_directory(f, p_path, io)
  IN  IF e.error THEN [ok |-> FALSE, fs |-> f, creates |-> 0]
      ELSE IF e.value THEN [ok |-> TRUE, fs |-> f, creates |-> 0]
      ELSE IF ~c.value \/ c.error THEN [ok |-> FALSE, fs |-> c.fs, creates |-> 1]
      ELSE [ok |-> TRUE, fs |-> c.fs, creates |-> 1]

\* std::filesystem::copy(old, new, overwrite_existing | recursive, error):
\* a directory cannot be copied onto a regular file; a copy that fails has
\* copied the files in `copied` before the error
fs_copy(f, io, copied) ==
  IF f.root # "dir" THEN [error |-> TRUE, fs |-> f]
  ELSE IF io = "copy_error"
    THEN [error |-> TRUE,
          fs |-> [f EXCEPT !.rootFiles =
                    [n \in FileNames |->
                       IF n \in copied /\ f.legacyFiles[n] # NoFile
                         THEN f.legacyFiles[n] ELSE f.rootFiles[n]]]]
  ELSE [error |-> FALSE,
        fs |-> [f EXCEPT !.rootFiles =
                  [n \in FileNames |->
                     IF f.legacyFiles[n] # NoFile
                       THEN f.legacyFiles[n] ELSE f.rootFiles[n]]]]

\* migrate_directory removing the old path once it is copied
migrate_directory_RemovesOld(f, io, copied) ==
  LET c == fs_copy(f, io, copied)
  IN  IF io = "old_stat_error" THEN [ok |-> FALSE, fs |-> f]
      ELSE IF f.legacy = "absent" THEN [ok |-> TRUE, fs |-> f]
      ELSE IF c.error THEN [ok |-> FALSE, fs |-> c.fs]
      ELSE [ok |-> TRUE,
            fs |-> [c.fs EXCEPT !.legacy = "absent", !.legacyFiles = NoFiles]]

\* migrate_directory(old_path, storages_path)
migrate_directory(f, io, copied) ==
  LET c == fs_copy(f, io, copied)
  IN  IF io = "old_stat_error" THEN [ok |-> FALSE, fs |-> f]
      ELSE IF f.legacy = "absent" THEN [ok |-> TRUE, fs |-> f]
      ELSE IF c.error THEN [ok |-> FALSE, fs |-> c.fs]
      ELSE [ok |-> TRUE, fs |-> c.fs]

\* std::filesystem::remove_all(old_path, error), failures ignored: a removal
\* that fails has removed the files in `removed` and left the directory
fs_remove_all(f, io, removed) ==
  IF f.legacy = "absent" THEN f
  ELSE IF io = "remove_error"
    THEN [f EXCEPT !.legacyFiles =
            [n \in FileNames |-> IF n \in removed THEN NoFile ELSE f.legacyFiles[n]]]
  ELSE [f EXCEPT !.legacy = "absent", !.legacyFiles = NoFiles]

----------------------------------------------------------------------------
(* Initial state: the static initialisers, on any of a few disks *)

EmptyMap == [k \in {} |-> NoHandle]

Threads == {1, 2}

\* a thread that is not inside get_storage
Idle == [pc |-> "idle", name |-> <<>>, found |-> NoHandle, ret |-> NoHandle]

NoCall == [op |-> "none", name |-> <<>>, ret |-> NoHandle, log |-> "none",
           nullLogger |-> FALSE, repeat |-> FALSE]

Disk(r, e, rf, l, lf) ==
  [root |-> r, entries |-> e, rootFiles |-> rf, legacy |-> l, legacyFiles |-> lf]

LegacyFiles == [n \in FileNames |-> "v2"]

InitialDisks ==
  { Disk("absent", EmptyMap, NoFiles, "dir", LegacyFiles),
    Disk("dir", EmptyMap, [NoFiles EXCEPT !["a.txt"] = "v1"], "dir", LegacyFiles),
    Disk("file", EmptyMap, NoFiles, "absent", NoFiles),
    Disk("file", EmptyMap, NoFiles, "dir", LegacyFiles) }

Init ==
  /\ logger = "null"
  /\ storages_path = EmptyPath
  /\ storages = EmptyMap
  /\ has_error = TRUE
  /\ handles = <<>>
  /\ fs \in InitialDisks
  /\ last = NoCall
  /\ conflicted = {}
  /\ crashed = FALSE
  /\ calls = [t \in Threads |-> Idle]

----------------------------------------------------------------------------
(* Operations *)

\* the outcomes of a call through `logger`
MayDie == IF logger = "null" THEN BOOLEAN ELSE {FALSE}

\* a call of logger->Error / Info / ...: through the null logger the call is
\* undefined; the process dies (dies = TRUE) or carries on
Logged(op, name, ret, log, dies) ==
  /\ dies \in MayDie
  /\ crashed' = dies
  /\ last' = [op |-> op, name |-> name, ret |-> ret, log |-> log,
              nullLogger |-> (logger = "null"),
              repeat |-> (log = "several_times" /\ LowerName(name) \in conflicted)]

\* load leaving the flag as it was when the root cannot be ensured
Load_KeepsFlag(io, copied) ==
  LET r == request_directory(fs, RootPath, io)
      m == migrate_directory(r.fs, io, copied)
      log == IF ~r.ok THEN "create_root_failed"
             ELSE IF ~m.ok THEN "migrate_failed" ELSE "enabled"
  IN  /\ ~crashed
      /\ logger' = "set"
      /\ storages_path' = RootPath
      /\ has_error' = (IF ~r.ok THEN has_error ELSE ~m.ok)
      /\ fs' = IF r.ok THEN m.fs ELSE r.fs
      /\ crashed' = FALSE
      /\ last' = [op |-> "load", name |-> <<>>, ret |-> NoHandle, log |-> log,
                  nullLogger |-> FALSE, repeat |-> FALSE]
      /\ UNCHANGED <<storages, handles, conflicted, calls>>

\* FileSystem::load
Load(io, copied) ==
  LET r == request_directory(fs, RootPath, io)
      m == migrate_directory(r.fs, io, copied)
      log == IF ~r.ok THEN "create_root_failed"
             ELSE IF ~m.ok THEN "migrate_failed" ELSE "enabled"
  IN  /\ ~crashed
      /\ logger' = "set"
      /\ storages_path' = RootPath
      /\ has_error' = (~r.ok \/ ~m.ok)
      /\ fs' = IF r.ok THEN m.fs ELSE r.fs
      /\ crashed' = FALSE
      /\ last' = [op |-> "load", name |-> <<>>, ret |-> NoHandle, log |-> log,
                  nullLogger |-> FALSE, repeat |-> FALSE]
      /\ UNCHANGED <<storages, handles, conflicted, calls>>

\* unload revoking every registered storage before it clears the map
Unload_Revokes(io, removed, dies) ==
  /\ ~crashed
  /\ fs' = IF storages_path = EmptyPath THEN fs
           ELSE fs_remove_all(fs, io, removed)
  /\ handles' = [h \in DOMAIN handles |->
                   IF \E k \in DOMAIN storages : storages[k] = h
                     THEN [handles[h] EXCEPT !.revoked = TRUE] ELSE handles[h]]
  /\ storages' = EmptyMap
  /\ has_error' = TRUE
  /\ Logged("unload", <<>>, NoHandle, "terminated", dies)
  /\ logger' = "null"
  /\ conflicted' = {}
  /\ UNCHANGED <<storages_path, calls>>

\* FileSystem::unload; before the first load game_path is empty and old_path
\* is a relative path, not the legacy directory
Unload(io, removed, dies) ==
  /\ ~crashed
  /\ fs' = IF storages_path = EmptyPath THEN fs
           ELSE fs_remove_all(fs, io, removed)
  /\ storages' = EmptyMap
  /\ has_error' = TRUE
  /\ Logged("unload", <<>>, NoHandle, "terminated", dies)
  /\ logger' = "null"
  /\ conflicted' = {}
  /\ UNCHANGED <<storages_path, handles, calls>>

\* the conflict path without the call of revoke_permission
Conflict_NoRevoke(p_name, found, dies) ==
  /\ conflicted' = conflicted \cup {LowerName(p_name)}
  /\ Logged("get_storage", p_name, NoHandle, "several_times", dies)
  /\ UNCHANGED <<storages, handles, fs>>

\* the conflict path erasing the revoked storage from the map
Conflict_Forgets(p_name, found, dies) ==
  /\ handles' = revoke_permission(handles, found)
  /\ storages' = [k \in {x \in DOMAIN storages : storages[x] # found} |-> storages[k]]
  /\ conflicted' = conflicted \cup {LowerName(p_name)}
  /\ Logged("get_storage", p_name, NoHandle, "several_times", dies)
  /\ UNCHANGED fs

\* the conflict path flipping the permission instead of revoking it
Conflict_Toggle(p_name, found, dies) ==
  /\ handles' = [handles EXCEPT ![found].revoked = ~handles[found].revoked]
  /\ conflicted' = conflicted \cup {LowerName(p_name)}
  /\ Logged("get_storage", p_name, NoHandle, "several_times", dies)
  /\ UNCHANGED <<storages, fs>>

\* the conflict path deleting the directory of the revoked storage
Conflict_Deletes(p_name, found, dies) ==
  /\ handles' = revoke_permission(handles, found)
  /\ conflicted' = conflicted \cup {LowerName(p_name)}
  /\ fs' = [fs EXCEPT !.entries =
              [k \in DOMAIN fs.entries \ {handles[found].name} |-> fs.entries[k]]]
  /\ Logged("get_storage", p_name, NoHandle, "several_times", dies)
  /\ UNCHANGED storages

\* get_storage, lines 80-89: the name is taken; revoke the storage found
Conflict(p_name, found, dies) ==
  /\ handles' = revoke_permission(handles, found)
  /\ conflicted' = conflicted \cup {LowerName(p_name)}
  /\ Logged("get_storage", p_name, NoHandle, "several_times", dies)
  /\ UNCHANGED <<storages, fs>>

\* the grant registering the storage under the lower-cased name
Grant_LowerKey(p_name, path, disk, dies) ==
  /\ Len(handles) < MaxHandles
  /\ handles' = Append(handles, NewStorage(p_name, path, "get_storage"))
  /\ storages' = (LowerName(p_name) :> (Len(handles) + 1)) @@ storages
  /\ fs' = disk
  /\ Logged("get_storage", p_name, Len(handles) + 1, "granted", dies)
  /\ UNCHANGED conflicted

\* get_storage, lines 97-101: make the storage, register it, return it
Grant(p_name, path, disk, dies) ==
  /\ Len(handles) < MaxHandles
  /\ handles' = Append(handles, NewStorage(p_name, path, "get_storage"))
  /\ storages' = (p_name :> (Len(handles) + 1)) @@ storages
  /\ fs' = disk
  /\ Logged("get_storage", p_name, Len(handles) + 1, "granted", dies)
  /\ UNCHANGED conflicted

\* FileSystem::get_storage
GetStorage(p_name, io, dies) ==
  LET found == find_storage(p_name)
      path == Join(storages_path, p_name)
      r == request_directory(fs, path, io)
  IN  /\ ~crashed
      /\ IF has_error
           THEN /\ Logged("get_storage", p_name, NoHandle, "disabled", dies)
                /\ UNCHANGED <<storages, handles, fs, conflicted>>
         ELSE IF ~storage_name_rule(p_name) \/ IsReservedName(p_name)
           THEN /\ Logged("get_storage", p_name, NoHandle, "name_not_allowed", dies)
                /\ UNCHANGED <<storages, handles, fs, conflicted>>
         ELSE IF found # NoHandle
           THEN Conflict(p_name, found, dies)
         ELSE IF ~r.ok
           THEN /\ fs' = r.fs
                /\ Logged("get_storage", p_name, NoHandle, "create_failed", dies)
                /\ UNCHANGED <<storages, handles, conflicted>>
         ELSE Grant(p_name, path, r.fs, dies)
      /\ UNCHANGED <<logger, storages_path, has_error, calls>>

\* the shared path treating a second request like get_storage does
SharedFound_Revokes(found, dies) ==
  /\ handles' = revoke_permission(handles, found)
  /\ Logged("get_shared_storage", SharedName, NoHandle, "several_times", dies)
  /\ UNCHANGED <<storages, fs>>

\* get_shared_storage, lines 112-115: the shared storage is handed out again
SharedFound(found, dies) ==
  /\ Logged("get_shared_storage", SharedName, found, "granted", dies)
  /\ UNCHANGED <<storages, handles, fs>>

\* FileSystem::get_shared_storage
GetSharedStorage(io, dies) ==
  LET found == find_storage(SharedName)
      path == Join(storages_path, SharedName)
      r == request_directory(fs, path, io)
  IN  /\ ~crashed
      /\ IF has_error
           THEN /\ Logged("get_shared_storage", SharedName, NoHandle, "disabled", dies)
                /\ UNCHANGED <<storages, handles, fs>>
         ELSE IF found # NoHandle
           THEN SharedFound(found, dies)
         ELSE IF ~r.ok
           THEN /\ fs' = r.fs
                /\ Logged("get_shared_storage", SharedName, NoHandle, "create_failed", dies)
                /\ UNCHANGED <<storages, handles>>
         ELSE /\ Len(handles) < MaxHandles
              /\ handles' = Append(handles, NewStorage(SharedName, path, "get_shared_storage"))
              /\ storages' = (SharedName :> (Len(handles) + 1)) @@ storages
              /\ fs' = r.fs
              /\ Logged("get_shared_storage", SharedName, Len(handles) + 1, "granted", dies)
      /\ UNCHANGED <<logger, storages_path, has_error, conflicted, calls>>

\* the one system call that fails during an operation, if any
LoadIO == {"ok", "stat_error", "create_error", "old_stat_error", "copy_error"}

UnloadIO == {"ok", "remove_error"}

DirectoryIO == {"ok", "stat_error", "create_error"}

Next ==
  \/ \E io \in LoadIO :
       \E copied \in (IF io = "copy_error" THEN SUBSET FileNames ELSE {{}}) :
         Load(io, copied)
  \/ \E io \in UnloadIO : \E dies \in MayDie :
       \E removed \in (IF io = "remove_error" THEN SUBSET FileNames ELSE {{}}) :
         Unload(io, removed, dies)
  \/ \E p_name \in InputNames : \E io \in DirectoryIO : \E dies \in MayDie :
       GetStorage(p_name, io, dies)
  \/ \E io \in DirectoryIO : \E dies \in MayDie :
       GetSharedStorage(io, dies)

Spec == Init /\ [][Next]_vars

----------------------------------------------------------------------------
(* get_storage called from two threads: no lock guards `storages`, so the  *)
(* statements of two calls interleave. Each statement is one step here;    *)
(* two threads inside the unordered_map at once are a data race on top.    *)

Returned(t, ret) ==
  calls' = [calls EXCEPT ![t] = [pc |-> "done", name |-> calls[t].name,
                                 found |-> calls[t].found, ret |-> ret]]

\* get_storage, lines 65-77: the disabled check and the name check
Enter(t, p_name, dies) ==
  /\ ~crashed
  /\ calls[t].pc \in {"idle", "done"}
  /\ dies \in MayDie
  /\ IF has_error
       THEN /\ crashed' = dies
            /\ calls' = [calls EXCEPT ![t] = [pc |-> "done", name |-> p_name,
                                              found |-> NoHandle, ret |-> NoHandle]]
     ELSE IF ~storage_name_rule(p_name) \/ IsReservedName(p_name)
       THEN /\ crashed' = dies
            /\ calls' = [calls EXCEPT ![t] = [pc |-> "done", name |-> p_name,
                                              found |-> NoHandle, ret |-> NoHandle]]
     ELSE /\ crashed' = crashed
          /\ calls' = [calls EXCEPT ![t] = [pc |-> "find", name |-> p_name,
                                            found |-> NoHandle, ret |-> NoHandle]]
  /\ UNCHANGED <<logger, storages_path, storages, has_error, handles, fs, last,
                 conflicted>>

\* get_storage, line 78: auto storage = find_storage(name)
Find(t) ==
  /\ ~crashed
  /\ calls[t].pc = "find"
  /\ calls' = [calls EXCEPT ![t].found = find_storage(calls[t].name),
                            ![t].pc = IF find_storage(calls[t].name) # NoHandle
                                        THEN "revoke" ELSE "request"]
  /\ UNCHANGED <<logger, storages_path, storages, has_error, handles, fs, last,
                 conflicted, crashed>>

\* get_storage, lines 80-89: revoke the storage found, return null
Revoke(t) ==
  /\ ~crashed
  /\ calls[t].pc = "revoke"
  /\ handles' = revoke_permission(handles, calls[t].found)
  /\ conflicted' = conflicted \cup {LowerName(calls[t].name)}
  /\ Returned(t, NoHandle)
  /\ UNCHANGED <<logger, storages_path, storages, has_error, fs, last, crashed>>

\* get_storage, lines 90-96: request the directory, return null on failure
Request(t, io) ==
  LET r == request_directory(fs, Join(storages_path, calls[t].name), io)
  IN  /\ ~crashed
      /\ calls[t].pc = "request"
      /\ fs' = r.fs
      /\ IF r.ok THEN calls' = [calls EXCEPT ![t].pc = "insert"]
                 ELSE Returned(t, NoHandle)
      /\ UNCHANGED <<logger, storages_path, storages, has_error, handles, last,
                     conflicted, crashed>>

\* get_storage, lines 97-101: make the storage, storages[name] = storage
Insert(t) ==
  /\ ~crashed
  /\ calls[t].pc = "insert"
  /\ Len(handles) < MaxHandles
  /\ handles' = Append(handles,
                  NewStorage(calls[t].name, Join(storages_path, calls[t].name),
                             "get_storage"))
  /\ storages' = (calls[t].name :> (Len(handles) + 1)) @@ storages
  /\ Returned(t, Len(handles) + 1)
  /\ UNCHANGED <<logger, storages_path, has_error, fs, last, conflicted, crashed>>

NextConcurrent ==
  \/ \E io \in LoadIO :
       \E copied \in (IF io = "copy_error" THEN SUBSET FileNames ELSE {{}}) :
         Load(io, copied)
  \/ \E t \in Threads : \E p_name \in InputNames : \E dies \in MayDie :
       Enter(t, p_name, dies)
  \/ \E t \in Threads : Find(t)
  \/ \E t \in Threads : Revoke(t)
  \/ \E t \in Threads : \E io \in DirectoryIO : Request(t, io)
  \/ \E t \in Threads : Insert(t)

SpecConcurrent == Init /\ [][NextConcurrent]_vars

----------------------------------------------------------------------------
(* The vocabulary of the properties, stated without the operators above *)

Letters == (65..90) \cup (97..122)

Fold(c) == IF c \in 65..90 THEN c + 32 ELSE c

\* 3 to 24 ASCII letters
MatchesNamingRule(n) == Len(n) \in 3..24 /\ \A i \in 1..Len(n) : n[i] \in Letters

SameUpToCase(a, b) ==
  Len(a) = Len(b) /\ \A i \in 1..Len(a) : Fold(a[i]) = Fold(b[i])

IsShared(n) == SameUpToCase(n, <<115, 104, 97, 114, 101, 100>>)

HandleIds == 1..Len(handles)

Active(h) == ~handles[h].revoked

Registered == {storages[k] : k \in DOMAIN storages}

KeysLike(n) == {k \in DOMAIN storages : SameUpToCase(k, n)}

Enabled == ~has_error

----------------------------------------------------------------------------
(* C1: at most one active handle per case-insensitive name, among all the  *)
(* handles returned to callers or held in the map, in every reachable      *)
(* state, a load after an unload included.                                 *)
C1_OneActiveHandlePerName ==
  \A i, j \in HandleIds :
    (i # j /\ Active(i) /\ Active(j))
      => ~SameUpToCase(handles[i].name, handles[j].name)

(* C2: on an enabled registry, get_storage with a valid name that matches  *)
(* a key of the map up to case returns no handle, logs the conflict,       *)
(* leaves the storage found revoked, and changes neither the map, nor the  *)
(* set of handles, nor the disk.                                           *)
C2_Step ==
  (/\ last'.op = "get_storage"
   /\ Enabled
   /\ MatchesNamingRule(last'.name) /\ ~IsShared(last'.name)
   /\ KeysLike(last'.name) # {})
  => /\ last'.ret = NoHandle
     /\ last'.log = "several_times"
     /\ \A k \in KeysLike(last'.name) : handles'[storages[k]].revoked
     /\ storages' = storages
     /\ Len(handles') = Len(handles)
     /\ fs' = fs

C2_ConflictRevokesAndFails == [][C2_Step]_vars

C2_Witness ==
  /\ last.op = "get_storage" /\ last.log = "several_times" /\ ~last.repeat
  /\ last.ret = NoHandle
  /\ \E k \in KeysLike(last.name) : handles[storages[k]].revoked

(* C3: once get_storage has taken the conflict path for a name, every      *)
(* later get_storage for that name or a case variant of it, up to the next *)
(* unload, returns no handle.                                              *)
C3_Step ==
  (/\ last'.op = "get_storage"
   /\ \E c \in conflicted : SameUpToCase(c, last'.name))
  => last'.ret = NoHandle

C3_NameStaysUnusable == [][C3_Step]_vars

C3_Witness ==
  /\ last.op = "get_storage" /\ last.repeat /\ last.ret = NoHandle
  /\ last.name \notin DOMAIN storages
  /\ Cardinality(DOMAIN storages) > 1

(* C4: a revoked handle stays revoked over every step: load, unload,       *)
(* get_storage (a repeated conflict included) and get_shared_storage.      *)
C4_Step == \A h \in HandleIds : handles[h].revoked => handles'[h].revoked

C4_RevocationIsOneWay == [][C4_Step]_vars

C4_Witness ==
  /\ last.op = "get_storage" /\ last.log = "granted"
  /\ \E h \in HandleIds :
       /\ handles[h].revoked /\ h \notin Registered
       /\ SameUpToCase(handles[h].name, last.name)

(* C5: on an enabled registry, for a name that matches the naming rule, is *)
(* not "shared" and matches no key of the map up to case, when the         *)
(* directory rootPath/name is found present or is created, get_storage     *)
(* returns a new active handle bound to rootPath/name and adds exactly     *)
(* that handle to the map under the name as given.                         *)
DirectoryAvailable(n, io) ==
  /\ fs.root = "dir"
  /\ \/ io # "stat_error" /\ n \in DOMAIN fs.entries /\ fs.entries[n] = "dir"
     \/ io = "ok" /\ n \notin DOMAIN fs.entries

C5_Granted(n) ==
  /\ last'.ret = Len(handles) + 1
  /\ handles' = Append(handles,
                  [name |-> n, path |-> [base |-> "r6/storages", leaf |-> n],
                   revoked |-> FALSE, by |-> "get_storage"])
  /\ DOMAIN storages' = DOMAIN storages \cup {n}
  /\ storages'[n] = last'.ret
  /\ \A k \in DOMAIN storages : storages'[k] = storages[k]
  /\ fs'.root = "dir" /\ n \in DOMAIN fs'.entries /\ fs'.entries[n] = "dir"

C5_Step ==
  (/\ last'.op = "get_storage"
   /\ Enabled
   /\ MatchesNamingRule(last'.name) /\ ~IsShared(last'.name)
   /\ KeysLike(last'.name) = {})
  => \A io \in DirectoryIO, dies \in BOOLEAN :
       (DirectoryAvailable(last'.name, io) /\ GetStorage(last'.name, io, dies))
         => C5_Granted(last'.name)

C5_FirstRequestGranted == [][C5_Step]_vars

C5_Witness ==
  /\ last.op = "get_storage" /\ last.log = "granted"
  /\ last.ret = Len(handles) /\ Len(handles) > 1
  /\ Active(last.ret)
  /\ handles[last.ret].path = [base |-> "r6/storages", leaf |-> last.name]
  /\ last.name \in DOMAIN storages /\ storages[last.name] = last.ret
  /\ Cardinality(DOMAIN storages) > 1

(* C6: on an enabled registry, get_storage with a name that differs only   *)
(* in letter case from a key registered by get_storage takes the conflict  *)
(* path: no handle, the registered storage revoked, no new key, no change  *)
(* of the disk; and no two keys of the map are equal up to case.           *)
C6_NoTwoKeysAlike ==
  \A k1, k2 \in DOMAIN storages : SameUpToCase(k1, k2) => k1 = k2

C6_Step ==
  (/\ last'.op = "get_storage"
   /\ Enabled
   /\ \E k \in KeysLike(last'.name) : k # last'.name /\ ~IsShared(k))
  => /\ last'.ret = NoHandle
     /\ last'.log = "several_times"
     /\ \A k \in KeysLike(last'.name) : handles'[storages[k]].revoked
     /\ DOMAIN storages' = DOMAIN storages
     /\ fs' = fs

C6_LookupIgnoresCase == []C6_NoTwoKeysAlike /\ [][C6_Step]_vars

C6_Witness ==
  /\ last.op = "get_storage" /\ last.log = "several_times"
  /\ last.name \notin DOMAIN storages
  /\ \E k \in KeysLike(last.name) :
       /\ handles[storages[k]].revoked
       /\ k \in DOMAIN fs.entries
       /\ last.name \notin DOMAIN fs.entries

(* C7: on an enabled registry, get_storage with a name that is not 3 to 24 *)
(* ASCII letters fails as an invalid name: no handle, no directory, no     *)
(* revocation, the map unchanged.                                          *)
C7_Step ==
  (/\ last'.op = "get_storage"
   /\ Enabled
   /\ ~MatchesNamingRule(last'.name))
  => /\ last'.ret = NoHandle
     /\ last'.log = "name_not_allowed"
     /\ fs' = fs
     /\ handles' = handles
     /\ storages' = storages

C7_InvalidNameRejected == [][C7_Step]_vars

C7_Witness ==
  /\ last.op = "get_storage" /\ last.log = "name_not_allowed"
  /\ Len(last.name) = 3 /\ \E i \in 1..3 : last.name[i] \notin Letters
  /\ storages # EmptyMap

(* C8: on an enabled registry, get_storage with any casing of "shared"     *)
(* fails as an invalid name and revokes, inserts and creates nothing; a    *)
(* key of the map equal to "shared" up to case was put there by            *)
(* get_shared_storage.                                                     *)
C8_SharedKeysFromSharedPath ==
  \A k \in DOMAIN storages :
    IsShared(k) => handles[storages[k]].by = "get_shared_storage"

C8_Step ==
  (/\ last'.op = "get_storage"
   /\ Enabled
   /\ IsShared(last'.name))
  => /\ last'.ret = NoHandle
     /\ last'.log = "name_not_allowed"
     /\ fs' = fs
     /\ handles' = handles
     /\ storages' = storages

C8_SharedIsReserved == []C8_SharedKeysFromSharedPath /\ [][C8_Step]_vars

C8_Witness ==
  /\ last.op = "get_storage" /\ last.log = "name_not_allowed"
  /\ IsShared(last.name) /\ last.name # <<115, 104, 97, 114, 101, 100>>
  /\ \E k \in KeysLike(last.name) : Active(storages[k])

(* C9: on an enabled registry whose map holds the shared storage,          *)
(* get_shared_storage returns that same handle, bound to rootPath/shared,  *)
(* and changes neither the map, nor the disk, nor any handle.              *)
C9_Step ==
  (/\ last'.op = "get_shared_storage"
   /\ Enabled
   /\ KeysLike(<<115, 104, 97, 114, 101, 100>>) # {})
  => /\ \A k \in KeysLike(<<115, 104, 97, 114, 101, 100>>) : last'.ret = storages[k]
     /\ handles[last'.ret].path =
          [base |-> "r6/storages", leaf |-> <<115, 104, 97, 114, 101, 100>>]
     /\ storages' = storages
     /\ fs' = fs
     /\ handles' = handles

C9_SharedIsIdempotent == [][C9_Step]_vars

C9_Witness ==
  /\ last.op = "get_shared_storage"
  /\ last.ret # NoHandle /\ last.ret < Len(handles)
  /\ last.ret \in Registered
  /\ Active(last.ret)

(* C10: when load does not obtain the root as a directory (the creation    *)
(* fails, or a regular file sits at the root path), the registry is left   *)
(* disabled, and the get_storage and get_shared_storage calls that follow  *)
(* fail as disabled, return no handle and change neither disk nor map.     *)
RootIsDirectory == fs.root = "dir"

C10_LoadWithoutRootDisables ==
  /\ (last.op = "load" /\ ~RootIsDirectory) => has_error
  /\ (last.op \in {"get_storage", "get_shared_storage"}
        /\ logger = "set" /\ ~RootIsDirectory)
       => (last.log = "disabled" /\ last.ret = NoHandle)

(* C11: after load, the registry is enabled exactly when the root          *)
(* directory was ensured and the migration succeeded, a missing legacy     *)
(* directory counting as a success; when the root or the copy fails the    *)
(* registry is disabled.                                                   *)
RootEnsured(io) ==
  /\ io # "stat_error"
  /\ fs.root = "dir" \/ (fs.root = "absent" /\ io # "create_error")

MigrationSucceeded(io) ==
  /\ io # "old_stat_error"
  /\ fs.legacy = "absent" \/ io # "copy_error"

C11_Step ==
  last'.op = "load" =>
    \A io \in LoadIO, copied \in SUBSET FileNames :
      Load(io, copied) =>
        (has_error' = FALSE <=> (RootEnsured(io) /\ MigrationSucceeded(io)))

C11_EnabledIffRootAndMigration == [][C11_Step]_vars

(* C12: while the registry is enabled after a load that found the legacy   *)
(* directory, every legacy file is under the root with the legacy content; *)
(* no step but unload changes the legacy directory; unload removes it.     *)
(* As claimed: after that unload the legacy directory no longer exists.    *)
LegacyMigrated ==
  \A n \in FileNames :
    fs.legacyFiles[n] # "none" => fs.rootFiles[n] = fs.legacyFiles[n]

LegacyKept ==
  /\ fs'.legacy = fs.legacy
  /\ fs'.legacyFiles = fs.legacyFiles

C12_UnloadRemovesLegacy ==
  [][(Enabled /\ fs.legacy = "dir" /\ last'.op = "unload")
       => fs'.legacy = "absent"]_vars

(* C12, amended: as above, and unload removes the legacy directory unless  *)
(* the removal fails, a failure that unload ignores.                       *)
C12_Migrated == (Enabled /\ fs.legacy = "dir") => LegacyMigrated

C12_Step ==
  /\ last'.op # "unload" => LegacyKept
  /\ (Enabled /\ fs.legacy = "dir" /\ last'.op = "unload") =>
       \A io \in UnloadIO, removed \in SUBSET FileNames, dies \in BOOLEAN :
         (Unload(io, removed, dies) /\ io = "ok") => fs'.legacy = "absent"

C12_MigrationThenRemoval == []C12_Migrated /\ [][C12_Step]_vars

C12_Witness ==
  /\ last.op = "unload"
  /\ fs.legacy = "absent"
  /\ fs.root = "dir" /\ fs.rootFiles["a.txt"] = "v2"
  /\ Len(handles) > 0

(* C13: after unload the map is empty and the registry disabled, and a     *)
(* get_storage or get_shared_storage call made after unload, before any    *)
(* later load, fails as disabled: it returns to its caller with no handle  *)
(* and changes neither the map nor the disk.                               *)
Unloaded == logger = "null" /\ storages_path # [base |-> "", leaf |-> <<>>]

C13_AfterUnload == last.op = "unload" => (storages = EmptyMap /\ has_error)

C13_Step ==
  (Unloaded /\ last'.op \in {"get_storage", "get_shared_storage"})
    => /\ ~crashed'
       /\ last'.ret = NoHandle
       /\ last'.log = "disabled"
       /\ storages' = storages
       /\ fs' = fs

C13_UnloadedRegistryRefuses == []C13_AfterUnload /\ [][C13_Step]_vars

(* C14: when two get_storage calls for the same name (up to case) run      *)
(* concurrently on an enabled registry, at most one of them returns a      *)
(* handle and there are never two active handles for that name.            *)
C14_RaceHasOneWinner ==
  /\ \A t1, t2 \in Threads :
       (/\ t1 # t2
        /\ calls[t1].pc = "done" /\ calls[t2].pc = "done"
        /\ SameUpToCase(calls[t1].name, calls[t2].name))
       => (calls[t1].ret = NoHandle \/ calls[t2].ret = NoHandle)
  /\ \A h1, h2 \in HandleIds :
       (h1 # h2 /\ SameUpToCase(handles[h1].name, handles[h2].name))
       => (handles[h1].revoked \/ handles[h2].revoked)

(* C15: after any provisioning failure, the failed creation of the root in *)
(* load or of a storage directory in get_storage or get_shared_storage,    *)
(* the registry is disabled.                                               *)
C15_ProvisionFailureDisables ==
  last.log \in {"create_root_failed", "create_failed"} => has_error

(* C15, amended: a failed creation of the root in load leaves the registry *)
(* disabled, and the requests made while it is disabled and the logger is  *)
(* set fail as disabled with no handle; a failed creation of a storage     *)
(* directory in get_storage or get_shared_storage fails that call alone    *)
(* and leaves the registry enabled.                                        *)
C15_Step ==
  /\ (last'.op = "load" /\ last'.log = "create_root_failed") => has_error'
  /\ (has_error /\ logger = "set"
        /\ last'.op \in {"get_storage", "get_shared_storage"})
       => (last'.log = "disabled" /\ last'.ret = NoHandle /\ has_error')
  /\ (last'.op \in {"get_storage", "get_shared_storage"}
        /\ last'.log = "create_failed")
       => (Enabled /\ ~has_error' /\ last'.ret = NoHandle)

C15_OnlyLoadDisables == [][C15_Step]_vars

C15_Witness ==
  /\ last.op = "get_shared_storage" /\ last.log = "create_failed"
  /\ ~has_error
  /\ fs.root = "dir"


(* C16: a get_storage call that fails to provision makes exactly one       *)
(* creation attempt.                                                       *)
C16_Failed == last'.op = "get_storage" /\ last'.log = "create_failed"

C16_ExactlyOneAttempt ==
  [][C16_Failed =>
       \A io \in DirectoryIO, dies \in BOOLEAN :
         GetStorage(last'.name, io, dies)
           => request_directory(fs, Join(storages_path, last'.name), io).creates = 1]_vars

(* C16, amended: a get_storage call that fails to provision makes at most  *)
(* one creation attempt, and none when the existence check itself fails;   *)
(* it returns no handle, revokes nothing, leaves the map and the flag as   *)
(* they were and the name unregistered, and the next get_storage call for  *)
(* the name is granted when its directory is present or can be created.    *)
C16_Step ==
  /\ C16_Failed =>
       /\ \A io \in DirectoryIO, dies \in BOOLEAN :
            GetStorage(last'.name, io, dies)
              => LET r == request_directory(fs, Join(storages_path, last'.name), io)
                 IN  r.creates = (IF io = "stat_error" THEN 0 ELSE 1)
       /\ last'.ret = NoHandle
       /\ handles' = handles
       /\ storages' = storages
       /\ find_storage(last'.name) = NoHandle
       /\ ~has_error'
  /\ (last.op = "get_storage" /\ last.log = "create_failed"
        /\ last'.op = "get_storage" /\ last'.name = last.name) =>
       \A io \in DirectoryIO, dies \in BOOLEAN :
         (GetStorage(last'.name, io, dies)
            /\ request_directory(fs, Join(storages_path, last'.name), io).ok)
           => (last'.log = "granted" /\ ~handles'[last'.ret].revoked
                 /\ storages'[last'.name] = last'.ret)

C16_FailedProvisionIsLocal == [][C16_Step]_vars

C16_Witness ==
  /\ last.op = "get_storage" /\ last.log = "create_failed"
  /\ fs.root = "dir"
  /\ ~has_error
  /\ find_storage(last.name) = NoHandle
  /\ Len(handles) > 0


(* C17: the handle registered under "shared" is never revoked, whatever    *)
(* names get_storage is called with.                                       *)
C17_SharedStaysActive ==
  \A k \in DOMAIN storages : IsShared(k) => Active(storages[k])

C17_Witness ==
  /\ last.op = "get_storage" /\ IsShared(last.name)
  /\ last.log = "name_not_allowed"
  /\ \E k \in DOMAIN storages : IsShared(k) /\ Active(storages[k])
  /\ \E h \in HandleIds : ~Active(h)


(* C18: a get_storage call that ends in ServiceDisabled, InvalidName or    *)
(* AlreadyAcquired, the revocation included, leaves the filesystem as it   *)
(* was; the filesystem changes only in load, in unload and in a call that  *)
(* reaches directory provisioning.                                         *)
C18_Step ==
  /\ (last'.op = "get_storage"
        /\ last'.log \in {"disabled", "name_not_allowed", "several_times"})
       => fs' = fs
  /\ fs' # fs =>
       \/ last'.op \in {"load", "unload"}
       \/ /\ last'.op \in {"get_storage", "get_shared_storage"}
          /\ last'.log \in {"granted", "create_failed"}
          /\ find_storage(last'.name) = NoHandle

C18_FailuresLeaveDiskAlone == [][C18_Step]_vars

C18_Witness ==
  /\ last.op = "get_storage" /\ last.log = "several_times"
  /\ fs.root = "dir"
  /\ \E h \in HandleIds :
       /\ handles[h].revoked
       /\ SameUpToCase(handles[h].name, last.name)
       /\ handles[h].name \in DOMAIN fs.entries
       /\ fs.entries[handles[h].name] = "dir"


(* C19: unload changes the revocation state of no handle, and neither does *)
(* a following load: a handle that was active before unload is active      *)
(* after it and after the next load, though the map no longer holds it.    *)
C19_Step ==
  /\ last'.op \in {"unload", "load"} =>
       /\ Len(handles') = Len(handles)
       /\ \A h \in HandleIds : handles'[h].revoked = handles[h].revoked
  /\ last'.op = "unload" => storages' = EmptyMap

C19_UnloadRevokesNothing == [][C19_Step]_vars

C19_Witness ==
  /\ last.op = "load" /\ Enabled
  /\ storages = EmptyMap
  /\ \E h \in HandleIds : Active(h)


(* C20: whenever load, unload, get_storage or get_shared_storage emits a   *)
(* log message the logger is set: no call made while disabled, before the  *)
(* first load or after unload, logs through a null logger.                 *)
C20_NeverLogsThroughNull ==
  /\ last.op # "none" => ~last.nullLogger
  /\ ~crashed

====
